---- MODULE Spec2Model ----
(***************************************************************************)
(* Model of onlineshop.py: parse_receipt, the assignment loop of main,     *)
(* divide_order_bill, and the storage handles main opens.                  *)
(*                                                                         *)
(* Prices are Python floats (IEEE-754 binary64).  They are modelled        *)
(* exactly: a float is a sign and a magnitude, the magnitude a natural     *)
(* number counted in units of 2^-72 and held as NLimbs limbs of 12 bits     *)
(* (least significant first).  Every float the program can form from the   *)
(* receipts below is a multiple of 2^-72 below 2^12, so the representation *)
(* loses nothing; rounding to 53 significant bits is done where binary64   *)
(* does it (round to nearest, ties to even).                               *)
(***************************************************************************)
EXTENDS Integers, Sequences, FiniteSets, Bags, TLC

----------------------------------------------------------------------------
(* Bounds of the model *)

\* most purchase lines in a receipt of the assignment-loop specification
MaxItems == 1
\* most identifiers typed in one answer to a prompt
MaxListed == 2
\* most purchase lines in a receipt of the parsing specification
MaxLines == 2
\* most record calls in the order-of-recording specification
MaxRecs == 3

----------------------------------------------------------------------------
(* binary64 arithmetic *)

Base == 4096
NLimbs == 7
MantBits == 53

BigZero == [i \in 1..NLimbs |-> 0]

RECURSIVE Pow2(_)
Pow2(n) == IF n = 0 THEN 1 ELSE 2 * Pow2(n - 1)

RECURSIVE IntBitLen(_)
IntBitLen(n) == IF n = 0 THEN 0 ELSE 1 + IntBitLen(n \div 2)

RECURSIVE BigAddFrom(_, _, _, _)
BigAddFrom(a, b, i, c) ==
    IF i > NLimbs THEN << >>
    ELSE LET s == a[i] + b[i] + c
         IN  << s % Base >> \o BigAddFrom(a, b, i + 1, s \div Base)

BigAdd(a, b) == BigAddFrom(a, b, 1, 0)

RECURSIVE BigSubFrom(_, _, _, _)
BigSubFrom(a, b, i, br) ==
    IF i > NLimbs THEN << >>
    ELSE LET d == a[i] - b[i] - br
         IN  IF d < 0
             THEN << d + Base >> \o BigSubFrom(a, b, i + 1, 1)
             ELSE << d >> \o BigSubFrom(a, b, i + 1, 0)

\* a - b for a >= b
BigSub(a, b) == BigSubFrom(a, b, 1, 0)

RECURSIVE BigCmpFrom(_, _, _)
BigCmpFrom(a, b, i) ==
    IF i = 0 THEN 0
    ELSE IF a[i] > b[i] THEN 1
    ELSE IF a[i] < b[i] THEN -1
    ELSE BigCmpFrom(a, b, i - 1)

BigCmp(a, b) == BigCmpFrom(a, b, NLimbs)

\* short division of limbs 1..i of a by q, r the remainder carried in from above
RECURSIVE BigDivFrom(_, _, _, _)
BigDivFrom(a, q, i, r) ==
    IF i = 0 THEN [quot |-> << >>, rem |-> r]
    ELSE LET cur  == r * Base + a[i]
             rest == BigDivFrom(a, q, i - 1, cur % q)
         IN  [quot |-> Append(rest.quot, cur \div q), rem |-> rest.rem]

BigDiv(a, q) == BigDivFrom(a, q, NLimbs, 0)

\* a * n; the top limb keeps what does not fit (it is not reduced mod Base)
RECURSIVE BigMulFrom(_, _, _, _)
BigMulFrom(a, n, i, c) ==
    IF i > NLimbs THEN << >>
    ELSE LET p == a[i] * n + c
         IN  IF i = NLimbs THEN << p >>
             ELSE << p % Base >> \o BigMulFrom(a, n, i + 1, p \div Base)

BigMul(a, n) == BigMulFrom(a, n, 1, 0)

RECURSIVE TopLimb(_, _)
TopLimb(a, i) == IF i = 0 THEN 0 ELSE IF a[i] # 0 THEN i ELSE TopLimb(a, i - 1)

BitLen(a) ==
    LET t == TopLimb(a, NLimbs)
    IN  IF t = 0 THEN 0 ELSE 12 * (t - 1) + IntBitLen(a[t])

\* the k low bits of a
LowBits(a, k) ==
    [i \in 1..NLimbs |->
        IF 12 * i <= k THEN a[i]
        ELSE IF 12 * (i - 1) >= k THEN 0
        ELSE a[i] % Pow2(k - 12 * (i - 1))]

BigPow2(k) == [i \in 1..NLimbs |-> IF i = (k \div 12) + 1 THEN Pow2(k % 12) ELSE 0]

BitAt(a, k) == (a[(k \div 12) + 1] \div Pow2(k % 12)) % 2

\* a rounded to MantBits significant bits, to nearest, ties to even; sticky says
\* that the exact value lies strictly above a (a division's remainder)
RoundNearestEven(a, sticky) ==
    LET len == BitLen(a)
    IN  IF len <= MantBits THEN a
        ELSE LET k     == len - MantBits
                 low   == LowBits(a, k)
                 trunc == BigSub(a, low)
                 c     == BigCmp(low, BigPow2(k - 1))
                 up    == c > 0 \/ (c = 0 /\ (sticky \/ BitAt(a, k) = 1))
             IN  IF up THEN BigAdd(trunc, BigPow2(k)) ELSE trunc

\* a float; zero is kept unsigned (the sign of a zero never reaches the
\* purchases, the baskets or the bill: a zero voucher is not appended)
MkFloat(neg, m) == [neg |-> neg /\ m # BigZero, mag |-> m]

FloatZero == MkFloat(FALSE, BigZero)

IsZero(x) == x.mag = BigZero

RECURSIVE DigitsToInt(_)
DigitsToInt(ds) ==
    IF ds = << >> THEN 0
    ELSE 10 * DigitsToInt(SubSeq(ds, 1, Len(ds) - 1)) + ds[Len(ds)]

\* float("d.dd"), float("dd.dd"), float("-d.dd"): the digits are those of the
\* token without its point, so the token's value is DigitsToInt(digits) / 100
float(tok) ==
    LET n == DigitsToInt(tok.digits)
        d == BigDiv([i \in 1..NLimbs |-> IF i = NLimbs THEN n ELSE 0], 100)
    IN  MkFloat(tok.neg, RoundNearestEven(d.quot, d.rem # 0))

\* int("d"), int("dd")
int(tok) == DigitsToInt(tok)

\* x + y
fadd(x, y) ==
    IF x.neg = y.neg
    THEN MkFloat(x.neg, RoundNearestEven(BigAdd(x.mag, y.mag), FALSE))
    ELSE IF BigCmp(x.mag, y.mag) >= 0
         THEN MkFloat(x.neg, RoundNearestEven(BigSub(x.mag, y.mag), FALSE))
         ELSE MkFloat(y.neg, RoundNearestEven(BigSub(y.mag, x.mag), FALSE))

\* x / float(q) for an integer q >= 1
fdiv(x, q) ==
    LET d == BigDiv(x.mag, q)
    IN  MkFloat(x.neg, RoundNearestEven(d.quot, d.rem # 0))

\* sum(xs): 0 + xs[1] + xs[2] + ..., left to right
RECURSIVE sum(_)
sum(xs) ==
    IF xs = << >> THEN FloatZero
    ELSE fadd(sum(SubSeq(xs, 1, Len(xs) - 1)), xs[Len(xs)])

\* '{:.2f}'.format(x): the exact value of x rounded to hundredths, ties to
\* even, as a sign and a number of hundredths
Format2f(x) ==
    LET p     == BigMul(x.mag, 100)
        frac  == [i \in 1..NLimbs |-> IF i = NLimbs THEN 0 ELSE p[i]]
        c     == BigCmp(frac, BigPow2(12 * (NLimbs - 1) - 1))
        whole == p[NLimbs]
        up    == c > 0 \/ (c = 0 /\ whole % 2 = 1)
    IN  [neg |-> x.neg, hundredths |-> IF up THEN whole + 1 ELSE whole]

----------------------------------------------------------------------------
(* The receipt text, as the regular expressions of parse_receipt see it *)

\* re.search found nothing
Absent == [found |-> FALSE]

Found(tok) == [found |-> TRUE, tok |-> tok]

\* a price token: "1.00" is the digits 1,0,0; the sign is the voucher's "-"
Tok(neg, digits) == [neg |-> neg, digits |-> digits]

\* a line "<quantity> <description> £<price>"
Line(quantity, description, price) ==
    [quantity |-> quantity, description |-> description, price |-> price]

Bananas   == Line(<<2>>, "Bananas", Tok(FALSE, <<1, 0, 0>>))
Bread     == Line(<<1>>, "Bread", Tok(FALSE, <<2, 0, 0>>))
FreeBag   == Line(<<1>>, "Carrier bag", Tok(FALSE, <<0, 0, 0>>))
NoneSent  == Line(<<0>>, "Olives", Tok(FALSE, <<1, 0, 0>>))
NoneSent2 == Line(<<0, 0>>, "Capers", Tok(FALSE, <<1, 2, 3, 4>>))
Eggs      == Line(<<1, 2>>, "Eggs", Tok(FALSE, <<0, 1, 0>>))

DateTokens == {Absent, Found([weekday |-> "Friday", day |-> <<1, 2>>, month |-> "June"])}

DeliveryTokens == {Absent, Found(Tok(FALSE, <<0, 0, 0>>)), Found(Tok(FALSE, <<3, 0, 0>>))}

VoucherTokens == {Absent, Found(Tok(FALSE, <<0, 0, 0>>)), Found(Tok(TRUE, <<1, 0, 0>>))}

RECURSIVE SeqsUpTo(_, _)
SeqsUpTo(S, n) ==
    IF n = 0 THEN {<< >>}
    ELSE LET shorter == SeqsUpTo(S, n - 1)
         IN  shorter \cup {Append(s, x) : s \in {t \in shorter : Len(t) = n - 1}, x \in S}

\* the voucher line may also read "-0.00"
SignedZeroVoucher == Found(Tok(TRUE, <<0, 0, 0>>))

ReceiptsOver(lineSet, n, vouchers) ==
    [lines : SeqsUpTo(lineSet, n), date : DateTokens,
     delivery : DeliveryTokens, voucher : vouchers]

\* the receipt of the end-to-end scenario
ExampleReceipt ==
    [lines    |-> <<Bananas, Bread>>,
     date     |-> Found([weekday |-> "Friday", day |-> <<1, 2>>, month |-> "June"]),
     delivery |-> Found(Tok(FALSE, <<3, 0, 0>>)),
     voucher  |-> Found(Tok(TRUE, <<1, 0, 0>>))]

LoopReceipts ==
    ReceiptsOver({Bananas, FreeBag, NoneSent}, MaxItems, VoucherTokens) \cup {ExampleReceipt}

ParseReceipts ==
    ReceiptsOver({Bananas, Bread, FreeBag, NoneSent, NoneSent2, Eggs}, MaxLines,
                 VoucherTokens \cup {SignedZeroVoucher})

People == {"Alice", "Bob"}

\* what the user can type at a prompt, already split into identifiers
Answers == SeqsUpTo(People, MaxListed)

----------------------------------------------------------------------------
(* parse_receipt *)

Purchase(description, price, quantity) ==
    [description |-> description, price |-> price, quantity |-> quantity]

MonthNumber(name) ==
    CASE name = "January" -> 1 [] name = "February" -> 2 [] name = "March" -> 3
      [] name = "April" -> 4   [] name = "May" -> 5       [] name = "June" -> 6
      [] name = "July" -> 7    [] name = "August" -> 8    [] name = "September" -> 9
      [] name = "October" -> 10 [] name = "November" -> 11 [] name = "December" -> 12

\* datetime.strptime(s, '%A %d %B'): the year is not in the text and is 1900
strptime(d) == [year |-> 1900, month |-> MonthNumber(d.month), day |-> int(d.day)]

\* a local that is not bound yet, and one bound to v
Unset == [set |-> FALSE]

Val(v) == [set |-> TRUE, val |-> v]

\* m.group(1) of a search: AttributeError when the search found nothing
Raised(name) == [raised |-> name]

Group(m) == IF m.found THEN [raised |-> "none", val |-> m.tok] ELSE Raised("AttributeError")

\* variant of search_voucher: a missing voucher line counts as a voucher of 0
search_voucher_lenient(receipt) ==
    IF receipt.voucher.found
    THEN [raised |-> "none", val |-> float(receipt.voucher.tok)]
    ELSE [raised |-> "none", val |-> FloatZero]

search_voucher(receipt) ==
    LET g == Group(receipt.voucher)
    IN  IF g.raised # "none" THEN g ELSE [raised |-> "none", val |-> float(g.val)]

search_delivery_cost(receipt) ==
    LET g == Group(receipt.delivery)
    IN  IF g.raised # "none" THEN g ELSE [raised |-> "none", val |-> float(g.val)]

search_delivery_date(receipt) ==
    LET g == Group(receipt.date)
    IN  IF g.raised # "none" THEN g ELSE [raised |-> "none", val |-> strptime(g.val)]

found_purchases(receipt) ==
    [i \in 1..Len(receipt.lines) |->
        Purchase(receipt.lines[i].description,
                 float(receipt.lines[i].price),
                 int(receipt.lines[i].quantity))]

\* variant of synthetic: the delivery purchase only for a delivery that costs
synthetic_if_charged(delivery_cost, voucher) ==
    (IF ~IsZero(delivery_cost) THEN <<Purchase("Delivery costs", delivery_cost, 1)>> ELSE << >>)
    \o (IF ~IsZero(voucher) THEN <<Purchase("Voucher savings", voucher, 1)>> ELSE << >>)

synthetic(delivery_cost, voucher) ==
    <<Purchase("Delivery costs", delivery_cost, 1)>>
    \o (IF ~IsZero(voucher) THEN <<Purchase("Voucher savings", voucher, 1)>> ELSE << >>)

Prices(purchases) == [i \in 1..Len(purchases) |-> purchases[i].price]

\* variant of order_total: delivery and voucher counted once, in the subtotal
order_total_once(purchases, voucher, delivery_cost) == sum(Prices(purchases))

order_total(purchases, voucher, delivery_cost) ==
    fadd(fadd(sum(Prices(purchases)), voucher), delivery_cost)

parse_receipt(receipt) ==
    LET delivery_date == search_delivery_date(receipt)
        delivery_cost == search_delivery_cost(receipt)
        voucher       == search_voucher(receipt)
    IN  IF delivery_date.raised # "none" THEN Raised(delivery_date.raised)
        ELSE IF delivery_cost.raised # "none" THEN Raised(delivery_cost.raised)
        ELSE IF voucher.raised # "none" THEN Raised(voucher.raised)
        ELSE LET purchases == found_purchases(receipt)
                                \o synthetic(delivery_cost.val, voucher.val)
             IN  [raised     |-> "none",
                  order_info |-> [delivery_date |-> delivery_date.val,
                                  total |-> order_total(purchases, voucher.val,
                                                        delivery_cost.val)],
                  purchases  |-> purchases]

----------------------------------------------------------------------------
(* divide_order_bill and the body of the assignment loop *)

EmptyBaskets == [f \in {} |-> << >>]

\* lines 123-126: one share appended to the flatmate's list, created if absent
record(baskets, flatmate, cost_each) ==
    IF flatmate \notin DOMAIN baskets
    THEN [f \in DOMAIN baskets \cup {flatmate} |->
            IF f = flatmate THEN <<cost_each>> ELSE baskets[f]]
    ELSE [baskets EXCEPT ![flatmate] = Append(@, cost_each)]

RECURSIVE record_all(_, _, _)
record_all(baskets, purchasers, cost_each) ==
    IF purchasers = << >> THEN baskets
    ELSE record(record_all(baskets, SubSeq(purchasers, 1, Len(purchasers) - 1), cost_each),
                purchasers[Len(purchasers)], cost_each)

\* variant of assign: the purchasers typed split the unit share between them
assign_split(baskets, purchase, purchasers) ==
    IF purchasers = << >> THEN baskets
    ELSE record_all(baskets, purchasers,
                    fdiv(fdiv(purchase.price, purchase.quantity), Len(purchasers)))

\* lines 119-126 for one purchase and the purchasers typed for it
assign(baskets, purchase, purchasers) ==
    record_all(baskets, purchasers, fdiv(purchase.price, purchase.quantity))

\* variant of is_free: no purchase is passed over
never_free(purchase) == FALSE

\* line 116: purchase.price == 0
is_free(purchase) == IsZero(purchase.price)

divide_order_bill(baskets) == [flatmate \in DOMAIN baskets |-> sum(baskets[flatmate])]

\* the text of one printed line: who, and the amount to two decimals
BillLine(flatmate, owes) == [who |-> flatmate, amount |-> Format2f(owes)]

\* variant of report: a line only for a total that is not zero
report_owing(bill) ==
    SetToBag({BillLine(f, bill[f]) : f \in {g \in DOMAIN bill : ~IsZero(bill[g])}})

\* lines 129-130: one line printed for each item of the bill
report(bill) == SetToBag({BillLine(f, bill[f]) : f \in DOMAIN bill})

----------------------------------------------------------------------------
(* main *)

VARIABLES
    receipt,      \* the receipt text main reads
    pc,           \* "start", "loop" (waiting at index), "done"
    order_info,   \* local of main, from parse_receipt
    purchases,    \* local of main, from parse_receipt
    index,        \* the loop's position in purchases (enumerate from 1)
    baskets,      \* local of main
    bill,         \* what divide_order_bill returned
    out,          \* the bill lines printed, as a bag
    raised,       \* the exception that left main, "none" if none
    interrupted,  \* a KeyboardInterrupt was caught
    conn,         \* the sqlite3 connection: "none", "open", "closed"
    curs,         \* its cursor: "none", "open", "closed"
    asked,        \* history: the prompts answered, [index, times each person was typed]
    prompted,     \* history: the number of prompts issued
    ord           \* state of the order-of-recording specification

vars == <<receipt, pc, order_info, purchases, index, baskets, bill, out, raised,
          interrupted, conn, curs, asked, prompted, ord>>

mainVars == <<receipt, pc, order_info, purchases, index, baskets, bill, out, raised,
              interrupted, conn, curs, asked, prompted>>

Idle == [phase |-> "idle"]

InitMain(receipts) ==
    /\ receipt \in receipts
    /\ pc = "start"
    /\ order_info = Unset
    /\ purchases = Unset
    /\ index = 0
    /\ baskets = Unset
    /\ bill = Unset
    /\ out = EmptyBag
    /\ raised = "none"
    /\ interrupted = FALSE
    /\ conn = "none"
    /\ curs = "none"
    /\ asked = << >>
    /\ prompted = 0

Init == InitMain(LoopReceipts) /\ ord = Idle

\* line 104 raises: the error leaves main before anything is opened or built
ParseFails ==
    /\ pc = "start"
    /\ parse_receipt(receipt).raised # "none"
    /\ raised' = parse_receipt(receipt).raised
    /\ pc' = "done"
    /\ UNCHANGED <<receipt, order_info, purchases, index, baskets, bill, out,
                   interrupted, conn, curs, asked, prompted, ord>>

\* lines 104-114: parsed, connection and cursor opened, empty baskets
ParseOk ==
    /\ pc = "start"
    /\ parse_receipt(receipt).raised = "none"
    /\ order_info' = Val(parse_receipt(receipt).order_info)
    /\ purchases' = Val(parse_receipt(receipt).purchases)
    /\ conn' = "open"
    /\ curs' = "open"
    /\ baskets' = Val(EmptyBaskets)
    /\ index' = 1
    /\ pc' = "loop"
    /\ UNCHANGED <<receipt, bill, out, raised, interrupted, asked, prompted, ord>>

\* the number of times f is typed in an answer
Occurrences(f, ps) == Cardinality({i \in 1..Len(ps) : ps[i] = f})

AtPurchase == pc = "loop" /\ index <= Len(purchases.val)

\* lines 116-117: continue
Skip ==
    /\ AtPurchase
    /\ is_free(purchases.val[index])
    /\ index' = index + 1
    /\ UNCHANGED <<receipt, pc, order_info, purchases, baskets, bill, out, raised,
                   interrupted, conn, curs, asked, prompted, ord>>

\* line 119 divides by float(0): ZeroDivisionError is not caught by line 132,
\* line 136 closes the cursor and the error leaves main
DivideByZero ==
    /\ AtPurchase
    /\ ~is_free(purchases.val[index])
    /\ purchases.val[index].quantity = 0
    /\ raised' = "ZeroDivisionError"
    /\ curs' = "closed"
    /\ pc' = "done"
    /\ UNCHANGED <<receipt, order_info, purchases, index, baskets, bill, out,
                   interrupted, conn, asked, prompted, ord>>

\* lines 119-126: the prompt is answered with purchasers
Assign(purchasers) ==
    /\ AtPurchase
    /\ ~is_free(purchases.val[index])
    /\ purchases.val[index].quantity # 0
    /\ baskets' = Val(assign(baskets.val, purchases.val[index], purchasers))
    /\ asked' = Append(asked, [index |-> index,
                                times |-> [f \in People |-> Occurrences(f, purchasers)]])
    /\ prompted' = prompted + 1
    /\ index' = index + 1
    /\ UNCHANGED <<receipt, pc, order_info, purchases, bill, out, raised,
                   interrupted, conn, curs, ord>>

\* variant of Interrupt: the except clause around the loop alone, so that the
\* bill of the baskets so far is still computed and printed
InterruptThenReport ==
    /\ AtPurchase
    /\ ~is_free(purchases.val[index])
    /\ purchases.val[index].quantity # 0
    /\ prompted' = prompted + 1
    /\ interrupted' = TRUE
    /\ bill' = Val(divide_order_bill(baskets.val))
    /\ out' = report(divide_order_bill(baskets.val))
    /\ curs' = "closed"
    /\ pc' = "done"
    /\ UNCHANGED <<receipt, order_info, purchases, index, baskets, raised,
                   conn, asked, ord>>

\* the prompt of line 121 is interrupted: line 132 catches KeyboardInterrupt,
\* which skips lines 129-130; line 136 closes the cursor; main returns
Interrupt ==
    /\ AtPurchase
    /\ ~is_free(purchases.val[index])
    /\ purchases.val[index].quantity # 0
    /\ prompted' = prompted + 1
    /\ interrupted' = TRUE
    /\ curs' = "closed"
    /\ pc' = "done"
    /\ UNCHANGED <<receipt, order_info, purchases, index, baskets, bill, out, raised,
                   conn, asked, ord>>

\* lines 129-138: the loop is over; the bill is printed, the cursor closed
Display ==
    /\ pc = "loop"
    /\ index > Len(purchases.val)
    /\ bill' = Val(divide_order_bill(baskets.val))
    /\ out' = report(divide_order_bill(baskets.val))
    /\ curs' = "closed"
    /\ pc' = "done"
    /\ UNCHANGED <<receipt, order_info, purchases, index, baskets, raised,
                   interrupted, conn, asked, prompted, ord>>

Next ==
    \/ ParseFails
    \/ ParseOk
    \/ Skip
    \/ DivideByZero
    \/ \E purchasers \in Answers : Assign(purchasers)
    \/ Interrupt
    \/ Display

Spec == Init /\ [][Next]_vars

----------------------------------------------------------------------------
(* parse_receipt alone, over more receipts *)

InitParse == InitMain(ParseReceipts) /\ ord = Idle

NextParse == ParseFails \/ ParseOk

SpecParse == InitParse /\ [][NextParse]_vars

----------------------------------------------------------------------------
(* record and divide_order_bill alone: the same record calls in two orders *)

Tenth     == Line(<<1>>, "Lemon", Tok(FALSE, <<0, 1, 0>>))
Fifth     == Line(<<1>>, "Lime", Tok(FALSE, <<0, 2, 0>>))
ThreeTens == Line(<<1>>, "Garlic", Tok(FALSE, <<0, 3, 0>>))

\* the shares line 119 computes for these lines
OrderShares == {fdiv(float(l.price), int(l.quantity)) : l \in {Tenth, Fifth, ThreeTens}}

RecordCalls == [who : People, share : OrderShares]

Perms(n) == {p \in [1..n -> 1..n] : \A i, j \in 1..n : p[i] = p[j] => i = j}

InitOrder ==
    /\ InitMain({ExampleReceipt})
    /\ \E r \in SeqsUpTo(RecordCalls, MaxRecs) :
          \E p \in Perms(Len(r)) :
             ord = [phase |-> "recording", recs |-> r, perm |-> p, k |-> 0,
                    first |-> EmptyBaskets, second |-> EmptyBaskets]

\* the next record call of each order
RecordBoth ==
    /\ ord.phase = "recording"
    /\ ord.k < Len(ord.recs)
    /\ LET a == ord.recs[ord.k + 1]
           b == ord.recs[ord.perm[ord.k + 1]]
       IN  ord' = [ord EXCEPT !.k = @ + 1,
                              !.first = record(@, a.who, a.share),
                              !.second = record(@, b.who, b.share)]
    /\ UNCHANGED mainVars

Finalize ==
    /\ ord.phase = "recording"
    /\ ord.k = Len(ord.recs)
    /\ ord' = [phase |-> "finalized", recs |-> ord.recs, perm |-> ord.perm,
               billFirst |-> divide_order_bill(ord.first),
               billSecond |-> divide_order_bill(ord.second)]
    /\ UNCHANGED mainVars

NextOrder == RecordBoth \/ Finalize

SpecOrder == InitOrder /\ [][NextOrder]_vars

----------------------------------------------------------------------------
(* What the claims speak of *)

\* a required field is not in the text
FieldAbsent(r) == ~r.date.found \/ ~r.delivery.found \/ ~r.voucher.found

\* main returned after the loop ran over every purchase
Completed == pc = "done" /\ ~interrupted /\ raised = "none"

PriceOf(i) == purchases.val[i].price

\* price / quantity of purchase i
UnitShare(i) == fdiv(purchases.val[i].price, purchases.val[i].quantity)

\* the indices of the purchases with a nonzero price, ascending
RECURSIVE PricedUpTo(_)
PricedUpTo(n) ==
    IF n = 0 THEN << >>
    ELSE IF IsZero(PriceOf(n)) THEN PricedUpTo(n - 1)
    ELSE Append(PricedUpTo(n - 1), n)

\* the shares of f, in the order of the answers: the unit share of the
\* purchase asked about, once for each time f was typed in the answer
RECURSIVE SharesOf(_, _)
SharesOf(f, hist) ==
    IF hist = << >> THEN << >>
    ELSE LET e == hist[Len(hist)]
         IN  SharesOf(f, SubSeq(hist, 1, Len(hist) - 1))
             \o [i \in 1..e.times[f] |-> UnitShare(e.index)]

Listed(hist) == {f \in People : \E k \in 1..Len(hist) : hist[k].times[f] > 0}

ExpectedBaskets(hist) == [f \in Listed(hist) |-> SharesOf(f, hist)]

\* the number of printed lines that name f
LinesFor(f) == BagCardinality([l \in {x \in BagToSet(out) : x.who = f} |-> out[l]])

Hundredths(n) == [neg |-> FALSE, hundredths |-> n]

----------------------------------------------------------------------------
(* Claims *)

C2_BillIsSumOfUnitShares ==
    Completed /\ purchases.set =>
        /\ [k \in 1..Len(asked) |-> asked[k].index] = PricedUpTo(Len(purchases.val))
        /\ bill = Val([f \in Listed(asked) |-> sum(SharesOf(f, asked))])

\* C2 witness: the allocation scenario, Alice 4.50 and Bob 2.50
C2_Witness ==
    /\ Completed
    /\ receipt = ExampleReceipt
    /\ asked = << [index |-> 1, times |-> [f \in People |-> 1]],
                  [index |-> 2, times |-> [f \in People |-> IF f = "Alice" THEN 1 ELSE 0]],
                  [index |-> 3, times |-> [f \in People |-> 1]],
                  [index |-> 4, times |-> [f \in People |-> 1]] >>
    /\ bill.val["Alice"] = float(Tok(FALSE, <<4, 5, 0>>))
    /\ bill.val["Bob"] = float(Tok(FALSE, <<2, 5, 0>>))

\* C3: in every state, no prompt was answered for a purchase of price 0, and
\* the baskets hold exactly the shares of the answered prompts: a purchase of
\* price 0 is passed over without a prompt and without a record.
C3_FreePurchasesNeverRecorded ==
    purchases.set =>
        /\ \A k \in 1..Len(asked) : ~IsZero(PriceOf(asked[k].index))
        /\ prompted = Len(asked) + (IF interrupted THEN 1 ELSE 0)
        /\ baskets = Val(ExpectedBaskets(asked))

\* C3 witness: a delivery of 0.00 and a free purchase were passed over, and
\* shares of other purchases were recorded
C3_Witness ==
    /\ Completed
    /\ purchases.set
    /\ \E i, j \in 1..Len(purchases.val) :
          /\ i # j
          /\ IsZero(PriceOf(i))
          /\ IsZero(PriceOf(j))
          /\ purchases.val[j].description = "Delivery costs"
    /\ Listed(asked) # {}

\* the prices of the returned purchases, read off the receipt
ReceiptPrices(r) ==
    [i \in 1..Len(r.lines) |-> float(r.lines[i].price)]
    \o <<float(r.delivery.tok)>>
    \o (IF DigitsToInt(r.voucher.tok.digits) # 0 THEN <<float(r.voucher.tok)>> ELSE << >>)

\* C4: for a parsed receipt, total = subtotal + voucher + delivery cost, the
\* subtotal being the sum of the prices of all returned purchases, the
\* delivery and voucher purchases among them.
C4_TotalCountsDeliveryAndVoucherTwice ==
    order_info.set =>
        order_info.val.total =
            fadd(fadd(sum(ReceiptPrices(receipt)), float(receipt.voucher.tok)),
                 float(receipt.delivery.tok))

\* C4 witness: purchases 1.00 and 2.00, delivery 3.00, voucher -1.00: total 7.00
C4_Witness ==
    /\ order_info.set
    /\ receipt = ExampleReceipt
    /\ order_info.val.total = float(Tok(FALSE, <<7, 0, 0>>))

\* C5: for a parsed receipt, the purchases are the receipt's lines in order,
\* then 'Delivery costs' with quantity 1 (also for a delivery of 0.00), then
\* 'Voucher savings' with quantity 1 exactly when the voucher is not zero.
C5_PurchasesThenDeliveryThenVoucher ==
    purchases.set =>
        LET n       == Len(receipt.lines)
            ps      == purchases.val
            charged == DigitsToInt(receipt.voucher.tok.digits) # 0
        IN  /\ Len(ps) = n + 1 + (IF charged THEN 1 ELSE 0)
            /\ \A i \in 1..n :
                  ps[i] = Purchase(receipt.lines[i].description,
                                   float(receipt.lines[i].price),
                                   int(receipt.lines[i].quantity))
            /\ ps[n + 1] = Purchase("Delivery costs", float(receipt.delivery.tok), 1)
            /\ charged => ps[n + 2] = Purchase("Voucher savings",
                                               float(receipt.voucher.tok), 1)

\* C5 witness: two different lines, a delivery of 0.00 and a voucher of 0.00:
\* three purchases, the last the delivery
C5_Witness ==
    /\ purchases.set
    /\ Len(receipt.lines) = 2
    /\ receipt.lines[1] # receipt.lines[2]
    /\ DigitsToInt(receipt.delivery.tok.digits) = 0
    /\ DigitsToInt(receipt.voucher.tok.digits) = 0
    /\ Len(purchases.val) = 3
    /\ purchases.val[3].description = "Delivery costs"

\* C6: with the delivery date, the delivery cost or the voucher saving absent
\* from the text, parsing ends in an error that leaves main: nothing is
\* returned, no prompt is issued, no basket is built, no bill line is printed.
C6_MissingFieldIsFatal ==
    FieldAbsent(receipt) =>
        /\ pc # "start" => pc = "done" /\ raised = "AttributeError"
        /\ order_info = Unset
        /\ purchases = Unset
        /\ prompted = 0
        /\ asked = << >>
        /\ baskets = Unset
        /\ bill = Unset
        /\ out = EmptyBag

\* C6 witness: only the voucher line is missing, and main has ended
C6_Witness ==
    /\ pc = "done"
    /\ raised = "AttributeError"
    /\ receipt.date.found
    /\ receipt.delivery.found
    /\ ~receipt.voucher.found
    /\ receipt.lines # << >>

\* C7 (as amended): when the loop completes, exactly one line is printed for
\* each identifier typed for a purchase with a nonzero price, with its total
\* to two decimals, also when that total is zero; none for anyone else.
C7_OneLinePerRecordedIdentifier ==
    Completed /\ purchases.set =>
        \A f \in People :
            IF f \in Listed(asked)
            THEN /\ LinesFor(f) = 1
                 /\ BagIn(BillLine(f, sum(SharesOf(f, asked))), out)
            ELSE LinesFor(f) = 0

\* C7 witness: shares of 0.50, 0.50 and -1.00 cancel, and the line is printed
C7_Witness ==
    /\ Completed
    /\ purchases.set
    /\ "Alice" \in DOMAIN bill.val
    /\ Len(baskets.val["Alice"]) = 3
    /\ IsZero(bill.val["Alice"])
    /\ BagIn([who |-> "Alice", amount |-> Hundredths(0)], out)

\* C7 (as claimed): one line for each identifier with a nonzero total, none
\* for an identifier whose total is zero.
C7_OneLinePerNonzeroTotal ==
    Completed /\ purchases.set =>
        \A f \in People :
            LinesFor(f) = IF f \in DOMAIN bill.val /\ ~IsZero(bill.val[f]) THEN 1 ELSE 0

\* C8 (as claimed): every returned purchase has quantity >= 1, for any
\* quantity token of one or two digits, so that price / quantity never
\* divides by zero.
C8_QuantityAtLeastOne ==
    /\ purchases.set => \A i \in 1..Len(purchases.val) : purchases.val[i].quantity >= 1
    /\ raised # "ZeroDivisionError"

\* C9 (as claimed): the bill does not depend on the order in which the same
\* record calls were made: the same persons, the same totals.
C9_BillIndependentOfRecordOrder ==
    ord.phase = "finalized" => ord.billFirst = ord.billSecond

\* C10 (as claimed): when main ends, neither the connection nor the cursor it
\* opened is still open.
C10_HandlesReleased ==
    pc = "done" => conn # "open" /\ curs # "open"

====
